---- MODULE Spec2Model ----
(***************************************************************************)
(* Model of the sampling staff-assignment optimizer:                       *)
(*   data_loader.py  get_schedule_by_date, match_task_to_database          *)
(*   optimizer.py    SamplingOptimizer (calculate_match_score,             *)
(*                   is_person_available, get_priority_penalty,            *)
(*                   optimize_day, optimize_schedule), run_optimization    *)
(*   app.py          optimize (POST /api/optimize)                         *)
(*                                                                         *)
(* Text is modelled as a sequence of characters, so that strip() and the   *)
(* substring tests of the source are computed and not assumed.  The        *)
(* Japanese literals of the source are written with ASCII stand-ins:       *)
(*   notes characters  "G","K","N","M"  for U+6708 U+706B U+306E U+307F    *)
(*                     ("only Monday and Tuesday"),                        *)
(*                     "B","S","Y","X"  for U+5206 U+6790 U+512A U+5148    *)
(*                     ("analysis priority"),                              *)
(*                     "o" for any other character;                        *)
(*   area "Unknown" for U+4E0D U+660E, the area of an unregistered task.   *)
(* A date string 'YYYY-MM-DD' is the triple <<year, month, day>>.          *)
(***************************************************************************)
EXTENDS Integers, Sequences, FiniteSets, TLC

VARIABLES
    persons,           \* SamplingOptimizer.persons: the worker registry (rows in order)
    tasks,             \* SamplingOptimizer.tasks: the task database (rows in order)
    schedule,          \* schedule_df: rows [date_str, task_name] in order
    pc,                \* position of the run: "start", "loop", "done"; "score"/"match" for the function specifications
    schedule_by_date,  \* result of get_schedule_by_date: <<[date_str, task_list], ...>> in insertion order
    idx,               \* position of optimize_schedule's loop in schedule_by_date
    all_results,       \* optimize_schedule's all_results: date_str -> (task name -> list of person names)
    calls,             \* log of the optimize_day calls made: date_str -> arguments, locals and outcome
    response,          \* what app.optimize answers
    probe              \* argument and value of a function applied on its own

vars == <<persons, tasks, schedule, pc, schedule_by_date, idx, all_results, calls, response, probe>>

----------------------------------------------------------------------------
(* Bounds of the model *)

MaxRows == 2

MaxWorkers == 2

MaxRating == 5

MaxNameLen == 3

MaxDb == 2

----------------------------------------------------------------------------
(* Generic helpers *)

Range(f) == {f[i] : i \in DOMAIN f}

RECURSIVE SumTo(_, _)
SumTo(f, n) == IF n = 0 THEN 0 ELSE f[n] + SumTo(f, n - 1)

Abs(n) == IF n < 0 THEN -n ELSE n

\* dict.get(key, default)
Get(d, k, default) == IF k \in DOMAIN d THEN d[k] ELSE default

\* d[k] = v on a dict (adds the key when it is absent)
Put(d, k, v) == [f \in (DOMAIN d) \cup {k} |-> IF f = k THEN v ELSE d[f]]

\* All sequences over S of length at most n
SeqsUpTo(S, n) == UNION {[1..k -> S] : k \in 0..n}

\* sub-sequences of s (order kept) of length at most n
SubSeqsUpTo(s, n) ==
    {t \in SeqsUpTo(Range(s), n) :
        \E pos \in [1..Len(t) -> 1..Len(s)] :
            /\ \A i \in 1..Len(t) : s[pos[i]] = t[i]
            /\ \A i \in 1..(Len(t) - 1) : pos[i] < pos[i + 1]}

----------------------------------------------------------------------------
(* Text *)

Space == " "

RECURSIVE LStrip(_)
LStrip(s) == IF s # <<>> /\ Head(s) = Space THEN LStrip(Tail(s)) ELSE s

RECURSIVE RStrip(_)
RStrip(s) == IF s # <<>> /\ s[Len(s)] = Space THEN RStrip(SubSeq(s, 1, Len(s) - 1)) ELSE s

\* str.strip()
Strip(s) == RStrip(LStrip(s))

\* a in b, for strings
IsSubstring(a, b) ==
    /\ Len(a) <= Len(b)
    /\ \E i \in 0..(Len(b) - Len(a)) : SubSeq(b, i + 1, i + Len(a)) = a

\* '...' : the marker of the Monday/Tuesday-only rule in a worker's notes
MonTueOnly == <<"G", "K", "N", "M">>

\* '...' : the marker of an analysis-priority worker in a worker's notes
AnalysisPriority == <<"B", "S", "Y", "X">>

----------------------------------------------------------------------------
(* Dates: datetime.strptime(date_str, '%Y-%m-%d').weekday() *)

IsLeap(y) == (y % 4 = 0) /\ ((y % 100 # 0) \/ (y % 400 = 0))

DaysInMonth(y, m) ==
    IF m = 2 THEN (IF IsLeap(y) THEN 29 ELSE 28)
    ELSE IF m \in {4, 6, 9, 11} THEN 30 ELSE 31

RECURSIVE DaysBeforeMonth(_, _)
DaysBeforeMonth(y, m) ==
    IF m = 1 THEN 0 ELSE DaysInMonth(y, m - 1) + DaysBeforeMonth(y, m - 1)

DaysBeforeYear(y) ==
    (y - 1) * 365 + ((y - 1) \div 4) - ((y - 1) \div 100) + ((y - 1) \div 400)

ToOrdinal(date) == DaysBeforeYear(date[1]) + DaysBeforeMonth(date[1], date[2]) + date[3]

\* Monday = 0 ... Sunday = 6
Weekday(date) == (ToOrdinal(date) + 6) % 7

\* string order of two 'YYYY-MM-DD' strings
DateLess(a, b) ==
    \/ a[1] < b[1]
    \/ a[1] = b[1] /\ a[2] < b[2]
    \/ a[1] = b[1] /\ a[2] = b[2] /\ a[3] < b[3]

----------------------------------------------------------------------------
(* data_loader.py *)

AddRowOverwrite(result, row) ==
    IF \A i \in DOMAIN result : result[i].date_str # row.date_str
    THEN Append(result, [date_str |-> row.date_str, task_list |-> <<row.task_name>>])
    ELSE [i \in DOMAIN result |->
            IF result[i].date_str = row.date_str
            THEN [result[i] EXCEPT !.task_list = <<row.task_name>>]
            ELSE result[i]]

\* get_schedule_by_date: the loop body for one row, on the dict built so far
\* (a dict keeps its keys in insertion order: a sequence of entries)
AddRow(result, row) ==
    IF \A i \in DOMAIN result : result[i].date_str # row.date_str
    THEN Append(result, [date_str |-> row.date_str, task_list |-> <<row.task_name>>])
    ELSE [i \in DOMAIN result |->
            IF result[i].date_str = row.date_str
            THEN [result[i] EXCEPT !.task_list = Append(@, row.task_name)]
            ELSE result[i]]

RECURSIVE GroupRows(_, _)
GroupRows(rows, result) ==
    IF rows = <<>> THEN result ELSE GroupRows(Tail(rows), AddRow(result, Head(rows)))

get_schedule_by_date(schedule_df) == GroupRows(schedule_df, <<>>)

\* the default of match_task_to_database for a name the database does not know
\* (duration 1.0 is written 1)
DefaultTask(task_name_clean) ==
    [task_id |-> 0, task_name |-> task_name_clean, area |-> "Unknown",
     required_workers |-> 1, required_skill |-> 3, required_strength |-> 3,
     urgency |-> 3, ship_work |-> 1, navigation_required |-> 1, duration |-> 1,
     is_unregistered |-> TRUE]

\* database_df[database_df['task_name'] == task_name_clean]
ExactMatch(task_name_clean, database_df) ==
    SelectSeq(database_df, LAMBDA row : row.task_name = task_name_clean)

PartialHitOneWay(db_name, task_name_clean) == IsSubstring(db_name, task_name_clean)

\* db_name in task_name_clean or task_name_clean in db_name
PartialHit(db_name, task_name_clean) ==
    IsSubstring(db_name, task_name_clean) \/ IsSubstring(task_name_clean, db_name)

\* the partial-match loop from row i on: <<row>> when it returns a row, <<>> when it ends
RECURSIVE PartialMatch(_, _, _)
PartialMatch(task_name_clean, database_df, i) ==
    IF i > Len(database_df) THEN <<>>
    ELSE IF PartialHit(Strip(database_df[i].task_name), task_name_clean)
         THEN <<database_df[i]>>
         ELSE PartialMatch(task_name_clean, database_df, i + 1)

match_task_to_database(task_name, database_df) ==
    LET task_name_clean == Strip(task_name)
        exact_match == ExactMatch(task_name_clean, database_df)
        partial == PartialMatch(task_name_clean, database_df, 1)
    IN  IF Len(exact_match) > 0 THEN exact_match[1]
        ELSE IF partial # <<>> THEN partial[1]
        ELSE DefaultTask(task_name_clean)

----------------------------------------------------------------------------
(* optimizer.py: scoring, availability, priority *)

SkillTermFlat(skill_diff) ==
    IF skill_diff >= 0 THEN 30 ELSE -(Abs(skill_diff) * 20)

SkillTerm(skill_diff) ==
    IF skill_diff >= 0 THEN 30 + skill_diff * 5 ELSE -(Abs(skill_diff) * 20)

StrengthTerm(strength_diff) ==
    IF strength_diff >= 0 THEN 20 + strength_diff * 3 ELSE -(Abs(strength_diff) * 15)

ShipTerm(person, task) ==
    IF Get(task, "ship_work", 1) >= 3
    THEN LET ship_diff == person.ship - Get(task, "ship_work", 1)
         IN  IF ship_diff >= 0 THEN 15 + ship_diff * 2 ELSE -(Abs(ship_diff) * 10)
    ELSE 0

NavigationTermInverted(person, task) ==
    IF Get(task, "navigation_required", 1) >= 3
    THEN LET nav_ability == person.navigation
         IN  IF nav_ability > 0 THEN -30 ELSE 10 + nav_ability * 2
    ELSE 0

NavigationTerm(person, task) ==
    IF Get(task, "navigation_required", 1) >= 3
    THEN LET nav_ability == person.navigation
         IN  IF nav_ability > 0 THEN 10 + nav_ability * 2 ELSE -30
    ELSE 0

calculate_match_score(person, task) ==
    SkillTerm(person.skill - Get(task, "required_skill", 3))
    + StrengthTerm(person.strength - Get(task, "required_strength", 3))
    + ShipTerm(person, task)
    + NavigationTerm(person, task)

WeekdayAllowedThroughWednesday(weekday) == weekday \in {0, 1, 2}

\* weekday in [0, 1]
WeekdayAllowed(weekday) == weekday \in {0, 1}

is_person_available(person, date_str) ==
    LET notes == Get(person, "notes", <<>>)
    IN  IF IsSubstring(MonTueOnly, notes)
        THEN WeekdayAllowed(Weekday(date_str))
        ELSE TRUE

get_priority_penalty(person) ==
    LET notes == Get(person, "notes", <<>>)
    IN  IF IsSubstring(AnalysisPriority, notes) THEN -20 ELSE 0

----------------------------------------------------------------------------
(* optimizer.py: optimize_day *)

\* tasks_info: every name of task_list resolved, with its original name
TasksInfo(task_list, database_df) ==
    [i \in 1..Len(task_list) |->
        Put(match_task_to_database(task_list[i], database_df), "original_name", task_list[i])]

\* available_persons
AvailablePersons(persons_df, date_str) ==
    SelectSeq(persons_df, LAMBDA person : is_person_available(person, date_str))

\* {task['original_name']: [] for task in tasks_info}
EmptyResult(tasks_info) ==
    [name \in {tasks_info[i].original_name : i \in DOMAIN tasks_info} |-> <<>>]

AreaOf(task) == Get(task, "area", "Unknown")

\* area_tasks: the keys, and the task indices under a key
Areas(tasks_info) == {AreaOf(tasks_info[i]) : i \in DOMAIN tasks_info}

AreaTasks(tasks_info, area) == {i \in DOMAIN tasks_info : AreaOf(tasks_info[i]) = area}

CoefficientUnadjusted(person, task) == calculate_match_score(person, task)

\* the coefficient of x[p_idx, t_idx] in the objective
Coefficient(person, task) == calculate_match_score(person, task) + get_priority_penalty(person)

\* constraint 1 on one worker's y: sum of y[p, area] over the areas <= 1
OneArea(y) == Cardinality({area \in DOMAIN y : y[area] = 1}) <= 1

LinkedUnchecked(tasks_info, x, y) == TRUE

\* constraint 2 on one worker: x[p, t] <= y[p, area] for every task t of every area
Linked(tasks_info, x, y) ==
    \A area \in DOMAIN y : \A t_idx \in AreaTasks(tasks_info, area) : x[t_idx] <= y[area]

\* the values of one worker's variables that meet constraints 1 and 2
WorkerRows(tasks_info) ==
    {r \in [x : [DOMAIN tasks_info -> {0, 1}], y : [Areas(tasks_info) -> {0, 1}]] :
        OneArea(r.y) /\ Linked(tasks_info, r.x, r.y)}

\* constraint 3: for every task, sum of x[p, t] over the workers <= required
Capacity(tasks_info, sol) ==
    \A t_idx \in DOMAIN tasks_info :
        Cardinality({p_idx \in DOMAIN sol : sol[p_idx].x[t_idx] = 1})
            <= Get(tasks_info[t_idx], "required_workers", 1)

\* the feasible points of the problem: one row per available worker
Feasible(available_persons, tasks_info) ==
    {sol \in [DOMAIN available_persons -> WorkerRows(tasks_info)] : Capacity(tasks_info, sol)}

\* the objective: lpSum(score * x[p_idx, t_idx])
Objective(available_persons, tasks_info, sol) ==
    LET T == Len(tasks_info)
        term == [k \in 1..(Len(available_persons) * T) |->
                    LET p_idx == ((k - 1) \div T) + 1
                        t_idx == ((k - 1) % T) + 1
                    IN  Coefficient(available_persons[p_idx], tasks_info[t_idx])
                            * sol[p_idx].x[t_idx]]
    IN  SumTo(term, Len(available_persons) * T)

\* what the solver leaves in the variables when it reports Optimal: a feasible
\* point of maximum objective (which one, among several, is the solver's choice)
OptimalSolutions(available_persons, tasks_info) ==
    LET F == Feasible(available_persons, tasks_info)
        values == {Objective(available_persons, tasks_info, sol) : sol \in F}
        best == CHOOSE v \in values : \A w \in values : w <= v
    IN  {sol \in F : Objective(available_persons, tasks_info, sol) = best}

\* pulp.LpStatus: 1 Optimal, 0 Not Solved, -1 Infeasible, -2 Unbounded, -3 Undefined
LpStatusOptimal == "Optimal"

LpStatusFailed == {"Not Solved", "Infeasible", "Unbounded", "Undefined"}

\* the result loops: for every person, for every task, append when x is set;
\* k counts the (person, task) pairs in loop order
RECURSIVE FillResult(_, _, _, _, _)
FillResult(result, available_persons, tasks_info, x, k) ==
    LET T == Len(tasks_info)
        p_idx == ((k - 1) \div T) + 1
        t_idx == ((k - 1) % T) + 1
        name == tasks_info[t_idx].original_name
    IN  IF k > Len(available_persons) * T THEN result
        ELSE FillResult(
                IF x[p_idx][t_idx] = 1
                THEN [result EXCEPT ![name] = Append(@, available_persons[p_idx].name)]
                ELSE result,
                available_persons, tasks_info, x, k + 1)

\* prob.status == pulp.LpStatusOptimal
StatusRead(status) == status = LpStatusOptimal

\* the value optimize_day returns after the solver has answered
DayResult(available_persons, tasks_info, status, x) ==
    IF StatusRead(status)
    THEN FillResult(EmptyResult(tasks_info), available_persons, tasks_info, x, 1)
    ELSE EmptyResult(tasks_info)

----------------------------------------------------------------------------
(* The inputs the model runs on *)

Person(name, priority, skill, strength, ship, navigation, notes) ==
    [name |-> name, priority |-> priority, skill |-> skill, trouble |-> 1,
     personality |-> 4, strength |-> strength, ship |-> ship, driving |-> 1,
     navigation |-> navigation, notes |-> notes]

\* W1 and W2 differ only in navigation; W3 is an analysis-priority worker whose
\* coefficients are negative; W4 works on Mondays and Tuesdays only
PersonPool ==
    << Person("W1", 1, 5, 5, 1, 1, <<>>),
       Person("W2", 2, 5, 5, 1, 0, <<>>),
       Person("W3", 3, 3, 2, 0, 0, AnalysisPriority),
       Person("W4", 4, 5, 5, 1, 1, MonTueOnly \o <<"o", "o">>) >>

PersonRegistries == SubSeqsUpTo(PersonPool, MaxWorkers)

Task(task_id, task_name, area, required_workers, skill, strength, ship_work, navigation) ==
    [task_id |-> task_id, task_name |-> task_name, area |-> area,
     required_workers |-> required_workers, required_skill |-> skill,
     required_strength |-> strength, urgency |-> 3, ship_work |-> ship_work,
     navigation_required |-> navigation, duration |-> 1]

\* "a": one worker, no vessel or navigation requirement; "b": another area, two
\* workers, vessel work and navigation required
TaskPool ==
    << Task(1, <<"a">>, "East", 1, 3, 3, 1, 1),
       Task(2, <<"b">>, "West", 2, 4, 3, 3, 4) >>

TaskDatabases == {TaskPool, <<>>}

\* display names: two registered, one unknown to the database, one padded
NamePool == {<<"a">>, <<"b">>, <<"c">>, <<"a", " ">>}

\* 2025-04-01 is a Tuesday, 2025-04-02 a Wednesday
DatePool == {<<2025, 4, 1>>, <<2025, 4, 2>>}

\* (load_schedule raises on a sheet without rows, where the frame has no columns
\* to rename: a schedule that reaches optimize_schedule has at least one row)
Schedules == SeqsUpTo([date_str : DatePool, task_name : NamePool], MaxRows) \ {<<>>}

----------------------------------------------------------------------------
(* The run: app.optimize -> run_optimization -> optimize_schedule -> optimize_day *)

NoResponse == [sent |-> FALSE, success |-> FALSE, results |-> <<>>, dates |-> <<>>]

Idle ==
    /\ schedule_by_date = <<>>
    /\ idx = 0
    /\ all_results = <<>>
    /\ calls = <<>>
    /\ response = NoResponse

Init ==
    /\ persons \in PersonRegistries
    /\ tasks \in TaskDatabases
    /\ schedule \in Schedules
    /\ pc = "start"
    /\ probe = <<>>
    /\ Idle

\* sorted(results.keys())
RECURSIVE SortDates(_)
SortDates(S) ==
    IF S = {} THEN <<>>
    ELSE LET first == CHOOSE d \in S : \A e \in S \ {d} : DateLess(d, e)
         IN  <<first>> \o SortDates(S \ {first})

\* optimize_schedule, line 196
GetScheduleByDate ==
    /\ pc = "start"
    /\ schedule_by_date' = get_schedule_by_date(schedule)
    /\ idx' = 1
    /\ pc' = "loop"
    /\ UNCHANGED <<persons, tasks, schedule, all_results, calls, response, probe>>

InLoop == pc = "loop" /\ idx <= Len(schedule_by_date)

NoWorkersUnchecked(available_persons) == FALSE

\* not available_persons
NoWorkers(available_persons) == available_persons = <<>>

\* the arguments and locals of the optimize_day call of this pass of the loop
DayDate == schedule_by_date[idx].date_str

DayTaskList == schedule_by_date[idx].task_list

DayTasksInfo == TasksInfo(DayTaskList, tasks)

DayAvailable == AvailablePersons(persons, DayDate)

\* an entry of the log of calls
CallRecord(solver_calls, status, x, result, outcome) ==
    [date_str |-> DayDate, task_list |-> DayTaskList, tasks_info |-> DayTasksInfo,
     available_persons |-> DayAvailable, solver_calls |-> solver_calls,
     status |-> status, x |-> x, result |-> result, outcome |-> outcome]

\* one pass of optimize_schedule's loop, optimize_day returning at line 118
OptimizeDayNoWorkers ==
    /\ InLoop
    /\ NoWorkers(DayAvailable)
    /\ LET result == EmptyResult(DayTasksInfo)
       IN  /\ calls' = Put(calls, DayDate, CallRecord(0, "none", <<>>, result, "returned"))
           /\ all_results' = Put(all_results, DayDate, result)
    /\ idx' = idx + 1
    /\ UNCHANGED <<persons, tasks, schedule, pc, schedule_by_date, response, probe>>

\* one pass of the loop, the solver reporting Optimal
OptimizeDayOptimal ==
    /\ InLoop
    /\ ~NoWorkers(DayAvailable)
    /\ \E sol \in OptimalSolutions(DayAvailable, DayTasksInfo) :
        LET x == [p_idx \in DOMAIN DayAvailable |-> sol[p_idx].x]
            result == DayResult(DayAvailable, DayTasksInfo, LpStatusOptimal, x)
        IN  /\ calls' = Put(calls, DayDate,
                            CallRecord(1, LpStatusOptimal, x, result, "returned"))
            /\ all_results' = Put(all_results, DayDate, result)
    /\ idx' = idx + 1
    /\ UNCHANGED <<persons, tasks, schedule, pc, schedule_by_date, response, probe>>

\* one pass of the loop, the solver reporting another status: the variables are not read
OptimizeDayNotOptimal ==
    /\ InLoop
    /\ ~NoWorkers(DayAvailable)
    /\ \E status \in LpStatusFailed :
        LET result == DayResult(DayAvailable, DayTasksInfo, status, <<>>)
        IN  /\ calls' = Put(calls, DayDate, CallRecord(1, status, <<>>, result, "returned"))
            /\ all_results' = Put(all_results, DayDate, result)
    /\ idx' = idx + 1
    /\ UNCHANGED <<persons, tasks, schedule, pc, schedule_by_date, response, probe>>

\* one pass of the loop, prob.solve raising (the solver could not be run): the
\* exception leaves optimize_day, optimize_schedule and run_optimization, and
\* app.optimize answers with its except branch
OptimizeDaySolverError ==
    /\ InLoop
    /\ ~NoWorkers(DayAvailable)
    /\ calls' = Put(calls, DayDate, CallRecord(1, "none", <<>>, <<>>, "raised"))
    /\ response' = [sent |-> TRUE, success |-> FALSE, results |-> <<>>, dates |-> <<>>]
    /\ pc' = "done"
    /\ UNCHANGED <<persons, tasks, schedule, schedule_by_date, idx, all_results, probe>>

\* the loop has ended: optimize_schedule and run_optimization return, app.optimize answers
ScheduleReturn ==
    /\ pc = "loop"
    /\ idx > Len(schedule_by_date)
    /\ response' = [sent |-> TRUE, success |-> TRUE, results |-> all_results,
                    dates |-> SortDates(DOMAIN all_results)]
    /\ pc' = "done"
    /\ UNCHANGED <<persons, tasks, schedule, schedule_by_date, idx, all_results, calls, probe>>

Next ==
    \/ GetScheduleByDate
    \/ OptimizeDayNoWorkers
    \/ OptimizeDayOptimal
    \/ OptimizeDayNotOptimal
    \/ OptimizeDaySolverError
    \/ ScheduleReturn

Spec == Init /\ [][Next]_vars

----------------------------------------------------------------------------
(* calculate_match_score applied on its own, over the whole rating domain *)

ScorePersons ==
    {Person("P", 1, skill, strength, ship, navigation, <<>>) :
        skill \in 1..MaxRating, strength \in 1..MaxRating,
        ship \in 0..MaxRating, navigation \in 0..MaxRating}

ScoreTasks ==
    {Task(1, <<"a">>, "East", 1, required_skill, required_strength, ship_work,
          navigation_required) :
        required_skill \in 1..MaxRating, required_strength \in 1..MaxRating,
        ship_work \in 0..MaxRating, navigation_required \in 0..MaxRating}

InitScore ==
    /\ pc = "score"
    /\ probe \in [person : ScorePersons, task : ScoreTasks]
    /\ persons = <<>>
    /\ tasks = <<>>
    /\ schedule = <<>>
    /\ Idle

ApplyScore ==
    /\ pc = "score"
    /\ probe' = [person |-> probe.person, task |-> probe.task,
                 score |-> calculate_match_score(probe.person, probe.task)]
    /\ pc' = "scored"
    /\ UNCHANGED <<persons, tasks, schedule, schedule_by_date, idx, all_results, calls, response>>

NextScore == ApplyScore

SpecScore == InitScore /\ [][NextScore]_vars

----------------------------------------------------------------------------
(* match_task_to_database applied on its own, over names and databases *)

\* display names: every string of letters and spaces up to the bound
DisplayNames == SeqsUpTo({"a", "b", Space}, MaxNameLen)

\* names of database rows: plain, overlapping, padded behind and in front
DbNamePool == {<<"a">>, <<"b">>, <<"a", "b">>, <<"a", Space>>, <<Space, "b">>}

\* databases: row i has task_id i and needs i workers, so that rows are told apart
MatchDatabases ==
    {[i \in 1..Len(names) |-> Task(i, names[i], "East", i, 4, 4, 1, 1)] :
        names \in SeqsUpTo(DbNamePool, MaxDb)}

InitMatch ==
    /\ pc = "match"
    /\ probe \in [task_name : DisplayNames, database_df : MatchDatabases]
    /\ persons = <<>>
    /\ tasks = <<>>
    /\ schedule = <<>>
    /\ Idle

ApplyMatch ==
    /\ pc = "match"
    /\ probe' = [task_name |-> probe.task_name, database_df |-> probe.database_df,
                 task_info |-> match_task_to_database(probe.task_name, probe.database_df)]
    /\ pc' = "matched"
    /\ UNCHANGED <<persons, tasks, schedule, schedule_by_date, idx, all_results, calls, response>>

NextMatch == ApplyMatch

SpecMatch == InitMatch /\ [][NextMatch]_vars

----------------------------------------------------------------------------
(* The run on the schedule of one day, over every day of a week *)

\* Monday 2025-03-31 ... Sunday 2025-04-06
WeekDates == {<<2025, 3, 31>>} \cup {<<2025, 4, day>> : day \in 1..6}

DaySchedules ==
    {[i \in 1..Len(names) |-> [date_str |-> date_str, task_name |-> names[i]]] :
        date_str \in WeekDates, names \in SeqsUpTo(NamePool, MaxRows) \ {<<>>}}

InitWeek ==
    /\ persons \in PersonRegistries
    /\ tasks \in TaskDatabases
    /\ schedule \in DaySchedules
    /\ pc = "start"
    /\ probe = <<>>
    /\ Idle

SpecWeek == InitWeek /\ [][Next]_vars

----------------------------------------------------------------------------
(* The run on one day with one task that needs navigation and two workers *)
(* who differ in navigation only                                           *)

\* the two workers: equal skill, strength, vessel rating and notes; the one
\* named by navigator can navigate, the other cannot
NavPairs ==
    {[i \in 1..2 |->
        Person(IF i = 1 THEN "W1" ELSE "W2", i, skill, 3, ship,
               IF i = navigator THEN navigation ELSE 0, notes)] :
        skill \in 1..MaxRating, ship \in {0, 1}, navigation \in 1..MaxRating,
        navigator \in {1, 2},
        notes \in {<<>>, AnalysisPriority, MonTueOnly}}

\* the database: one task "b" with navigation_required 3 or 4, for one or two workers
NavDatabases ==
    {<<Task(1, <<"b">>, "West", required_workers, skill, 3, ship_work, navigation)>> :
        required_workers \in {1, 2}, skill \in 1..MaxRating,
        ship_work \in {1, 3}, navigation \in {3, 4}}

InitNav ==
    /\ persons \in NavPairs
    /\ tasks \in NavDatabases
    /\ schedule \in {<<[date_str |-> date_str, task_name |-> <<"b">>]>> : date_str \in DatePool}
    /\ pc = "start"
    /\ probe = <<>>
    /\ Idle

SpecNav == InitNav /\ [][Next]_vars

----------------------------------------------------------------------------
(* Properties *)

\* the optimize_day calls that returned a mapping
Returned == {d \in DOMAIN calls : calls[d].outcome = "returned"}

\* the names under which a worker is listed in a result
ListedUnder(result, worker) == {name \in DOMAIN result : worker \in Range(result[name])}

AllEmpty(result) == \A name \in DOMAIN result : result[name] = <<>>

HasMonTueRule(person) == IsSubstring(MonTueOnly, person.notes)

\* C1: in every mapping optimize_day returns, the number of workers listed for
\* a task is at most the required_workers of the task as resolved (1 for an
\* unregistered task).
C1_CapacityPerTask ==
    \A d \in Returned :
        \A i \in DOMAIN calls[d].tasks_info :
            Len(calls[d].result[calls[d].tasks_info[i].original_name])
                <= calls[d].tasks_info[i].required_workers

\* C2: in every mapping optimize_day returns, the tasks a worker is listed under
\* belong to at most one area (unregistered tasks all belong to the area Unknown).
C2_OneAreaPerWorker ==
    \A d \in Returned :
        \A person \in Range(calls[d].available_persons) :
            Cardinality({AreaOf(calls[d].tasks_info[i]) :
                            i \in {j \in DOMAIN calls[d].tasks_info :
                                    calls[d].tasks_info[j].original_name
                                        \in ListedUnder(calls[d].result, person.name)}}) <= 1

\* C2 witness: a day with tasks in two areas, solved, on which a worker whose
\* coefficient is positive for a task of each area is assigned.
C2_Witness ==
    \E d \in Returned :
        /\ calls[d].status = LpStatusOptimal
        /\ \E person \in Range(calls[d].available_persons) :
            /\ ListedUnder(calls[d].result, person.name) # {}
            /\ \E i, j \in DOMAIN calls[d].tasks_info :
                /\ AreaOf(calls[d].tasks_info[i]) # AreaOf(calls[d].tasks_info[j])
                /\ Coefficient(person, calls[d].tasks_info[i]) > 0
                /\ Coefficient(person, calls[d].tasks_info[j]) > 0

\* C3: when the solver was run and reported anything but Optimal, optimize_day
\* does not return the all-empty mapping, which is what a solved day without
\* any assignment returns.
C3_FailureDistinguishable ==
    \A d \in DOMAIN calls :
        (calls[d].solver_calls = 1 /\ calls[d].status # LpStatusOptimal)
            => ~(calls[d].outcome = "returned" /\ calls[d].result = EmptyResult(calls[d].tasks_info))

\* the dates whose day optimization failed: the solver was run and did not report Optimal
FailedDates == {d \in DOMAIN calls : calls[d].solver_calls = 1 /\ calls[d].status # LpStatusOptimal}

ScheduleDates == {schedule[i].date_str : i \in DOMAIN schedule}

\* C4: once the run has answered, a day whose optimization failed has not kept
\* the other dates out of the result (every date of the schedule is in it), and
\* the failed date is told apart in the result: it is not given as an ordinary
\* mapping without assignments.
C4_FailureIsolatedAndReported ==
    pc = "done" =>
        \A d \in FailedDates :
            /\ response.success
            /\ DOMAIN response.results = ScheduleDates
            /\ ~AllEmpty(response.results[d])

\* C5: on a date on which no worker passes the availability filter (every worker
\* of the registry, if any, has the Monday/Tuesday rule and the date is another
\* weekday), optimize_day returns, the solver is not run, and every task name
\* of the day maps to the empty list.
C5_NoWorkersEmptyResult ==
    \A d \in DOMAIN calls :
        (\A person \in Range(persons) : HasMonTueRule(person) /\ Weekday(d) \notin {0, 1})
            => /\ calls[d].outcome = "returned"
               /\ calls[d].solver_calls = 0
               /\ calls[d].result = [name \in Range(calls[d].task_list) |-> <<>>]

\* C5 witness: a call on a date on which the registry has workers and none is available.
C5_Witness ==
    \E d \in DOMAIN calls :
        /\ persons # <<>>
        /\ \A person \in Range(persons) : HasMonTueRule(person) /\ Weekday(d) \notin {0, 1}
        /\ calls[d].task_list # <<>>
        /\ calls[d].outcome = "returned"

\* C6: a worker with the Monday/Tuesday rule is in no list of the mapping
\* returned for a Wednesday..Sunday, and is not among the candidates of that
\* day; a worker without the rule is among the candidates of every day.
C6_MonTueOnlyExcluded ==
    \A d \in DOMAIN calls :
        \A person \in Range(persons) :
            /\ (HasMonTueRule(person) /\ Weekday(d) \in 2..6)
                => /\ person \notin Range(calls[d].available_persons)
                   /\ (d \in Returned => ListedUnder(calls[d].result, person.name) = {})
            /\ ~HasMonTueRule(person) => person \in Range(calls[d].available_persons)

\* C6 witness: a solved day, Wednesday or later, with a Monday/Tuesday worker
\* whose coefficient is positive left out and another worker assigned.
C6_Witness ==
    \E d \in Returned :
        /\ Weekday(d) \in 2..6
        /\ calls[d].status = LpStatusOptimal
        /\ ~AllEmpty(calls[d].result)
        /\ \E person \in Range(persons) :
            /\ HasMonTueRule(person)
            /\ \E i \in DOMAIN calls[d].tasks_info :
                Coefficient(person, calls[d].tasks_info[i]) > 0

\* C8: the value the result holds for an unregistered task carries the
\* is_unregistered flag, so it is never equal to the value it holds for a
\* registered task of the same day.
C8_UnregisteredFlagInOutput ==
    \A d \in Returned :
        \A i, j \in DOMAIN calls[d].tasks_info :
            (/\ Get(calls[d].tasks_info[i], "is_unregistered", FALSE)
             /\ ~Get(calls[d].tasks_info[j], "is_unregistered", FALSE))
                => calls[d].result[calls[d].tasks_info[i].original_name]
                    # calls[d].result[calls[d].tasks_info[j].original_name]

\* C9: the mapping optimize_day returns keeps one assignment list per
\* occurrence of a name in the task list, also when a name occurs twice.
C9_DuplicatesKept ==
    \A d \in Returned : Cardinality(DOMAIN calls[d].result) = Len(calls[d].task_list)

\* the least element of a non-empty set of row numbers
First(S) == CHOOSE i \in S : \A j \in S : i <= j

\* the rows whose name as stored equals the trimmed display name
ExactRows(task_name, database_df) ==
    {i \in DOMAIN database_df : database_df[i].task_name = Strip(task_name)}

\* the rows whose name as stored is a substring of the trimmed display name, or contains it
StoredSubstringRows(task_name, database_df) ==
    {i \in DOMAIN database_df :
        \/ IsSubstring(database_df[i].task_name, Strip(task_name))
        \/ IsSubstring(Strip(task_name), database_df[i].task_name)}

\* the same with the name of the row trimmed too
TrimmedSubstringRows(task_name, database_df) ==
    {i \in DOMAIN database_df :
        \/ IsSubstring(Strip(database_df[i].task_name), Strip(task_name))
        \/ IsSubstring(Strip(task_name), Strip(database_df[i].task_name))}

\* the synthesized default, by the fields the claim names
IsDefault(task_info) ==
    /\ "is_unregistered" \in DOMAIN task_info
    /\ task_info.is_unregistered = TRUE
    /\ task_info.required_workers = 1
    /\ task_info.required_skill = 3
    /\ task_info.required_strength = 3
    /\ task_info.ship_work = 1
    /\ task_info.navigation_required = 1
    /\ task_info.duration = 1

\* the resolution order, given the rows that count as substring matches
ResolvedInOrder(task_info, database_df, exact, partial) ==
    IF exact # {} THEN task_info = database_df[First(exact)]
    ELSE IF partial # {} THEN task_info = database_df[First(partial)]
    ELSE IsDefault(task_info)

\* C7 as stated: exact match of the trimmed display name, else the first row
\* whose name (as stored) is a substring of the trimmed display name or
\* contains it, else the default.
C7_ResolutionOrderStoredNames ==
    pc = "matched" =>
        ResolvedInOrder(probe.task_info, probe.database_df,
                        ExactRows(probe.task_name, probe.database_df),
                        StoredSubstringRows(probe.task_name, probe.database_df))

\* C7 amended: the exact match compares the names of the rows as stored, the
\* substring scan compares them trimmed; else the default.
C7_ResolutionOrder ==
    pc = "matched" =>
        ResolvedInOrder(probe.task_info, probe.database_df,
                        ExactRows(probe.task_name, probe.database_df),
                        TrimmedSubstringRows(probe.task_name, probe.database_df))

\* C7 witness: a display name with no exact match, two rows match by substring,
\* the first of which contains the display name without being contained in it,
\* and is returned.
C7_Witness ==
    /\ pc = "matched"
    /\ Strip(probe.task_name) # <<>>
    /\ ExactRows(probe.task_name, probe.database_df) = {}
    /\ Cardinality(TrimmedSubstringRows(probe.task_name, probe.database_df)) >= 2
    /\ probe.task_info = probe.database_df[1]
    /\ ~IsSubstring(Strip(probe.database_df[1].task_name), Strip(probe.task_name))

\* the score as the claim words it
ClaimedScore(person, task) ==
    LET ds == person.skill - task.required_skill
        dp == person.strength - task.required_strength
        dv == person.ship - task.ship_work
        skill == IF ds >= 0 THEN 30 + 5 * ds ELSE -20 * Abs(ds)
        strength == IF dp >= 0 THEN 20 + 3 * dp ELSE -15 * Abs(dp)
        vessel == IF task.ship_work < 3 THEN 0
                  ELSE IF dv >= 0 THEN 15 + 2 * dv ELSE -10 * Abs(dv)
        navigation == IF task.navigation_required < 3 THEN 0
                      ELSE IF person.navigation > 0 THEN 10 + 2 * person.navigation ELSE -30
    IN  skill + strength + vessel + navigation

\* skill 5, strength 5 against required 3 and 3, both flags at 1
ScoreExample ==
    /\ probe.person.skill = 5
    /\ probe.person.strength = 5
    /\ probe.task.required_skill = 3
    /\ probe.task.required_strength = 3
    /\ probe.task.ship_work = 1
    /\ probe.task.navigation_required = 1

\* C10: calculate_match_score is the sum of the skill, strength, vessel and
\* navigation terms of the claim for every worker and task of the rating
\* domain, and 66 on the example.
C10_ScoreFormula ==
    pc = "scored" =>
        /\ probe.score = ClaimedScore(probe.person, probe.task)
        /\ ScoreExample => probe.score = 66

\* C10 witness: the example has been scored.
C10_Witness == pc = "scored" /\ ScoreExample /\ probe.score = 66

\* the workers listed anywhere in a result
Listed(result) == UNION {Range(result[name]) : name \in DOMAIN result}

\* two workers with equal ratings and equal priority annotation, the first able
\* to navigate, the second not
NavigatorAndTwin(a, b) ==
    /\ a.skill = b.skill
    /\ a.strength = b.strength
    /\ a.ship = b.ship
    /\ IsSubstring(AnalysisPriority, a.notes) = IsSubstring(AnalysisPriority, b.notes)
    /\ a.navigation > 0
    /\ b.navigation = 0

\* the days of the claim: one task with navigation_required >= 3, two available workers
NavigationDay(c) ==
    /\ Len(c.tasks_info) = 1
    /\ c.tasks_info[1].navigation_required >= 3
    /\ Len(c.available_persons) = 2

\* C11: on a day with one task that requires navigation and two available
\* workers equal in ratings and priority annotation, one able to navigate and
\* one not, the mapping optimize_day returns lists the worker who cannot
\* navigate only if it lists the one who can.
C11_NavigatorPreferred ==
    \A d \in Returned :
        NavigationDay(calls[d]) =>
            \A a, b \in Range(calls[d].available_persons) :
                (NavigatorAndTwin(a, b) /\ b.name \in Listed(calls[d].result))
                    => a.name \in Listed(calls[d].result)

\* C11 witness: such a day with a task for one worker, solved, where both
\* workers have a positive coefficient, the navigator comes second in the
\* registry and is the one listed.
C11_Witness ==
    \E d \in Returned :
        /\ NavigationDay(calls[d])
        /\ calls[d].status = LpStatusOptimal
        /\ calls[d].tasks_info[1].required_workers = 1
        /\ NavigatorAndTwin(calls[d].available_persons[2], calls[d].available_persons[1])
        /\ Coefficient(calls[d].available_persons[1], calls[d].tasks_info[1]) > 0
        /\ Listed(calls[d].result) = {calls[d].available_persons[2].name}

\* the sum of val over the finite set S
RECURSIVE SetSum(_, _)
SetSum(S, val) ==
    IF S = {} THEN 0
    ELSE LET e == CHOOSE e \in S : TRUE IN val[e] + SetSum(S \ {e}, val)

\* score plus priority penalty, as the claim words them
AdjustedScore(person, task) ==
    ClaimedScore(person, task)
        + (IF IsSubstring(AnalysisPriority, person.notes) THEN -20 ELSE 0)

\* the available worker of a call with a given name, the task of a call with a given key
PersonNamed(c, name) == CHOOSE person \in Range(c.available_persons) : person.name = name

TaskKeyed(c, name) ==
    c.tasks_info[CHOOSE i \in DOMAIN c.tasks_info : c.tasks_info[i].original_name = name]

\* the assigned pairs of a returned mapping: <<task name, position in its list>>
ResultPairs(result) ==
    UNION {{<<name, k>> : k \in 1..Len(result[name])} : name \in DOMAIN result}

\* the total adjusted score of a returned mapping
ResultTotal(c) ==
    SetSum(ResultPairs(c.result),
           [e \in ResultPairs(c.result) |->
                AdjustedScore(PersonNamed(c, c.result[e[1]][e[2]]), TaskKeyed(c, e[1]))])

\* the worker-to-task assignments of a day (sets of <<worker, task slot>>) that
\* respect the capacity bound and the one-area-per-worker rule
Admissible(c) ==
    {a \in SUBSET ((DOMAIN c.available_persons) \X (DOMAIN c.tasks_info)) :
        /\ \A t \in DOMAIN c.tasks_info :
            Cardinality({e \in a : e[2] = t}) <= c.tasks_info[t].required_workers
        /\ \A p \in DOMAIN c.available_persons :
            Cardinality({AreaOf(c.tasks_info[e[2]]) : e \in {f \in a : f[1] = p}}) <= 1}

AssignmentTotal(c, a) ==
    SetSum(a, [e \in a |-> AdjustedScore(c.available_persons[e[1]], c.tasks_info[e[2]])])

\* the calls in which the solver reported Optimal
Solved == {d \in Returned : calls[d].status = LpStatusOptimal}

\* the call optimize_day has just returned from with status Optimal (every call
\* is the latest one in the state that follows it)
JustSolved ==
    IF pc = "loop" /\ idx > 1 THEN Solved \cap {schedule_by_date[idx - 1].date_str} ELSE {}

\* C12: when the solver reports Optimal, the total adjusted score of the
\* mapping optimize_day returns is the maximum over the admissible assignments
\* (none has a greater total, one has this total); a single available worker
\* with a positive adjusted score for the single task of the day is listed
\* for it; no listed pair has a negative adjusted score.
C12_ReturnedTotalIsMaximum ==
    \A d \in JustSolved :
        /\ \A a \in Admissible(calls[d]) : AssignmentTotal(calls[d], a) <= ResultTotal(calls[d])
        /\ \E a \in Admissible(calls[d]) : AssignmentTotal(calls[d], a) = ResultTotal(calls[d])
        /\ (/\ Len(calls[d].available_persons) = 1
            /\ Len(calls[d].tasks_info) = 1
            /\ AdjustedScore(calls[d].available_persons[1], calls[d].tasks_info[1]) > 0)
                => calls[d].result[calls[d].task_list[1]] = <<calls[d].available_persons[1].name>>
        /\ \A e \in ResultPairs(calls[d].result) :
            AdjustedScore(PersonNamed(calls[d], calls[d].result[e[1]][e[2]]),
                          TaskKeyed(calls[d], e[1])) >= 0

\* C12 witness: a solved day with two workers and tasks in two areas on which
\* one worker has a negative adjusted score and is left out, the other is
\* listed, and a task stays without workers.
C12_Witness ==
    \E d \in Solved :
        /\ Len(calls[d].available_persons) = 2
        /\ Cardinality(Areas(calls[d].tasks_info)) = 2
        /\ Cardinality(Listed(calls[d].result)) = 1
        /\ \E person \in Range(calls[d].available_persons) :
            /\ person.name \notin Listed(calls[d].result)
            /\ \A i \in DOMAIN calls[d].tasks_info :
                AdjustedScore(person, calls[d].tasks_info[i]) < 0
        /\ \E name \in DOMAIN calls[d].result : calls[d].result[name] = <<>>

\* the task names the schedule has on a date
ScheduledOn(d) == {schedule[i].task_name : i \in {j \in DOMAIN schedule : schedule[j].date_str = d}}

\* C13: the result optimize_schedule returns has exactly the dates of the
\* schedule as its keys, and under each date every task name scheduled on that
\* date is a key of the date's mapping, with or without workers.
C13_ResultCoversSchedule ==
    (pc = "done" /\ response.success) =>
        /\ DOMAIN response.results = ScheduleDates
        /\ \A d \in ScheduleDates : ScheduledOn(d) \subseteq DOMAIN response.results[d]

\* C13 witness: a returned result for a date with two different task names, one
\* with a worker and one without.
C13_Witness ==
    /\ pc = "done"
    /\ response.success
    /\ \E d \in ScheduleDates :
        /\ Cardinality(ScheduledOn(d)) = 2
        /\ \E name1, name2 \in ScheduledOn(d) :
            /\ response.results[d][name1] = <<>>
            /\ response.results[d][name2] # <<>>

====
